---- MODULE Spec2Model ----
(***************************************************************************)
(* A model of the FTS collector (src/scraper.py): the query layer that     *)
(* turns JSON responses of the FTS API into pandas dataframes, and the     *)
(* export layer that writes them to CSV files.                             *)
(*                                                                         *)
(* Representation.                                                         *)
(*  - A basic Python string is a TLA+ string.  A string built by           *)
(*    concatenation (a URL, a file name, a path) is the sequence of its    *)
(*    pieces; in a path every separator "/" is a piece of its own.         *)
(*  - An optional argument (country=None, alias=None) is a sequence of     *)
(*    length at most one: <<>> is None, <<s>> is the string s.             *)
(*  - A DataFrame is [index, index_name, columns, rows]: the row labels,   *)
(*    the name of the index ("" for an unnamed one), the set of column     *)
(*    labels and, per row, the function from column label to cell.         *)
(*  - A call that can raise returns [err, df, reqs]: err is "none" or the  *)
(*    exception raised, df the returned frame, reqs the URLs it requested. *)
(***************************************************************************)
EXTENDS Integers, Sequences, FiniteSets, TLC

VARIABLES pc, dirs, files, requests, error, call, returned

vars == <<pc, dirs, files, requests, error, call, returned>>

-----------------------------------------------------------------------------
(* Strings and optional arguments                                          *)

None == <<>>

Some(s) == <<s>>

\* Python truthiness of an optional string: None and '' are both false
Truthy(opt) == opt # <<>> /\ opt[1] # ""

\* a basic string as a sequence of pieces ('' has no piece)
Str(s) == IF s = "" THEN <<>> ELSE <<s>>

\* str(n) of an integer
StrOfInt(n) == <<ToString(n)>>

FTS_BASE_URL == <<"http://fts.unocha.org/api/v1/">>

JSON_SUFFIX == <<".json">>

build_json_url(middle_part) == FTS_BASE_URL \o middle_part \o JSON_SUFFIX

-----------------------------------------------------------------------------
(* JSON bodies and HTTP responses                                          *)

\* a JSON array of objects; each item is a function from key to value
JsonArray(items) == [shape |-> "array", items |-> items]

\* a JSON object, its scalar-valued members and its array-valued members
JsonObject(scalars, arrays) == [shape |-> "object", scalars |-> scalars, arrays |-> arrays]

\* nested values are tagged, as isinstance() tells them apart
JList(seq) == [list |-> seq]

JDict(rec) == [dict |-> rec]

HttpOk(body) == [status |-> "ok", body |-> body]

HttpFailure(kind) == [status |-> kind, body |-> JsonArray(<<>>)]

-----------------------------------------------------------------------------
(* pandas                                                                  *)

NaN == "NaN"

Frame(index, index_name, columns, rows) ==
    [index |-> index, index_name |-> index_name, columns |-> columns, rows |-> rows]

\* pd.DataFrame(): no rows, no columns
EmptyFrame == Frame(<<>>, "", {}, <<>>)

Ok(df, reqs) == [err |-> "none", df |-> df, reqs |-> reqs]

Raise(e, reqs) == [err |-> e, df |-> EmptyFrame, reqs |-> reqs]

\* DataFrame.empty: any axis of length 0
empty(df) == Len(df.index) = 0 \/ df.columns = {}

\* the default RangeIndex 0 .. n-1
RangeIndex(n) == [i \in 1..n |-> i - 1]

Keys(items) == UNION {DOMAIN items[i] : i \in 1..Len(items)}

\* DataFrame(list of dicts): one row per item, one column per distinct key
FrameOfDicts(items) ==
    LET columns == Keys(items) IN
    Frame(RangeIndex(Len(items)), "", columns,
          [i \in 1..Len(items) |->
              [c \in columns |-> IF c \in DOMAIN items[i] THEN items[i][c] ELSE NaN]])

\* DataFrame(dict of scalars and lists): the lists give the rows, the scalars
\* are broadcast; no list at all, or lists of different lengths, is a ValueError
FrameOfObject(scalars, arrays) ==
    LET lens == {Len(arrays[k]) : k \in DOMAIN arrays}
        n == CHOOSE l \in lens : TRUE
        columns == DOMAIN scalars \cup DOMAIN arrays
    IN  Frame(RangeIndex(n), "", columns,
              [i \in 1..n |->
                  [c \in columns |-> IF c \in DOMAIN arrays THEN arrays[c][i] ELSE scalars[c]]])

ObjectIsFrame(arrays) == Cardinality({Len(arrays[k]) : k \in DOMAIN arrays}) = 1

\* pd.read_json(url): the GET and the parse; net maps a URL to its response
read_json(url, net) ==
    LET resp == net[url] IN
    IF resp.status # "ok" THEN Raise(resp.status, <<url>>)
    ELSE IF resp.body.shape = "array" THEN Ok(FrameOfDicts(resp.body.items), <<url>>)
    ELSE IF ObjectIsFrame(resp.body.arrays)
         THEN Ok(FrameOfObject(resp.body.scalars, resp.body.arrays), <<url>>)
         ELSE Raise("ValueError(frame)", <<url>>)

\* set_index with drop=False: the column stays a regular column
set_index_keeping_column(df, column) ==
    Frame([i \in 1..Len(df.index) |-> df.rows[i][column]], column, df.columns, df.rows)

\* DataFrame.set_index(column): the column's values become the row labels and
\* the column is dropped
set_index(df, column) ==
    Frame([i \in 1..Len(df.index) |-> df.rows[i][column]], column,
          df.columns \ {column},
          [i \in 1..Len(df.index) |-> [c \in df.columns \ {column} |-> df.rows[i][c]]])

\* a rename that renames "amount" only
rename_amount_only(df, mapping) ==
    LET new(c) == IF c = "amount" /\ c \in DOMAIN mapping THEN mapping[c] ELSE c
        columns == {new(c) : c \in df.columns}
        old(d) == CHOOSE c \in df.columns : new(c) = d
    IN  Frame(df.index, df.index_name, columns,
              [i \in 1..Len(df.index) |-> [d \in columns |-> df.rows[i][old(d)]]])

\* DataFrame.rename(columns=mapping): mapping is a function on some labels
rename(df, mapping) ==
    LET new(c) == IF c \in DOMAIN mapping THEN mapping[c] ELSE c
        columns == {new(c) : c \in df.columns}
        old(d) == CHOOSE c \in df.columns : new(c) = d
    IN  Frame(df.index, df.index_name, columns,
              [i \in 1..Len(df.index) |-> [d \in columns |-> df.rows[i][old(d)]]])

-----------------------------------------------------------------------------
(* The query layer                                                         *)

fetch_json_as_dataframe(url, net) == read_json(url, net)

fetch_json_as_dataframe_with_id(url, net) ==
    LET r == fetch_json_as_dataframe(url, net) IN
    IF r.err # "none" THEN r
    ELSE IF "id" \in r.df.columns THEN Ok(set_index(r.df, "id"), r.reqs)
    ELSE Ok(r.df, r.reqs)

\* pd.datetools.parse (dateutil): the strings it accepts and their timestamps
ParseableDates == {"2013-05-01", "1 May 2013", "2014-12-31T00:00:00"}

parse(s) ==
    CASE s = "2013-05-01" -> "Timestamp(2013-05-01 00:00:00)"
      [] s = "1 May 2013" -> "Timestamp(2013-05-01 00:00:00)"
      [] s = "2014-12-31T00:00:00" -> "Timestamp(2014-12-31 00:00:00)"

\* one pass of the loop body: dataframe[c] = dataframe[c].apply(parse)
ConvertColumn(df, c) ==
    Frame(df.index, df.index_name, df.columns,
          [i \in 1..Len(df.index) |->
              [d \in df.columns |-> IF d = c THEN parse(df.rows[i][d]) ELSE df.rows[i][d]]])

ColumnError(df, c) ==
    IF c \notin df.columns THEN "KeyError(date column)"
    ELSE IF \E i \in 1..Len(df.index) : df.rows[i][c] \notin ParseableDates THEN "ValueError(date)"
    ELSE "none"

RECURSIVE convert_date_columns_from_string_to_timestamp(_, _)
\* returns [err, df]: the frame as converted in place, or the first exception
convert_date_columns_from_string_to_timestamp(dataframe, column_names) ==
    IF column_names = <<>> THEN [err |-> "none", df |-> dataframe]
    ELSE LET c == Head(column_names)
             e == ColumnError(dataframe, c)
         IN  IF e # "none" THEN [err |-> e, df |-> dataframe]
             ELSE convert_date_columns_from_string_to_timestamp(
                      ConvertColumn(dataframe, c), Tail(column_names))

fetch_sectors_json_as_dataframe(net) ==
    fetch_json_as_dataframe_with_id(build_json_url(<<"Sector">>), net)

fetch_countries_json_as_dataframe(net) ==
    fetch_json_as_dataframe_with_id(build_json_url(<<"Country">>), net)

fetch_organizations_json_as_dataframe(net) ==
    fetch_json_as_dataframe_with_id(build_json_url(<<"Organization">>), net)

fetch_emergencies_json_for_country_as_dataframe(country, net) ==
    fetch_json_as_dataframe_with_id(build_json_url(<<"Emergency/country/">> \o Str(country)), net)

fetch_emergencies_json_for_year_as_dataframe(year, net) ==
    fetch_json_as_dataframe_with_id(build_json_url(<<"Emergency/year/">> \o StrOfInt(year)), net)

fetch_appeals_json_as_dataframe_given_url(url, net) ==
    LET r == fetch_json_as_dataframe_with_id(url, net) IN
    IF r.err # "none" THEN r
    ELSE LET c == convert_date_columns_from_string_to_timestamp(
                      r.df, <<"start_date", "end_date", "launch_date">>)
         IN  IF c.err # "none" THEN Raise(c.err, r.reqs) ELSE Ok(c.df, r.reqs)

fetch_appeals_json_for_country_as_dataframe(country, net) ==
    fetch_appeals_json_as_dataframe_given_url(
        build_json_url(<<"Appeal/country/">> \o Str(country)), net)

fetch_appeals_json_for_year_as_dataframe(year, net) ==
    fetch_appeals_json_as_dataframe_given_url(
        build_json_url(<<"Appeal/year/">> \o StrOfInt(year)), net)

fetch_projects_json_for_appeal_as_dataframe(appeal_id, net) ==
    LET r == fetch_json_as_dataframe_with_id(
                 build_json_url(<<"Project/appeal/">> \o StrOfInt(appeal_id)), net)
    IN  IF r.err # "none" THEN r
        ELSE IF ~empty(r.df)
             THEN LET c == convert_date_columns_from_string_to_timestamp(
                               r.df, <<"end_date", "last_updated_datetime">>)
                  IN  IF c.err # "none" THEN Raise(c.err, r.reqs) ELSE Ok(c.df, r.reqs)
             ELSE r

fetch_clusters_json_for_appeal_as_dataframe(appeal_id, net) ==
    fetch_json_as_dataframe(build_json_url(<<"Cluster/appeal/">> \o StrOfInt(appeal_id)), net)

fetch_contributions_json_as_dataframe_given_url(url, net) ==
    LET r == fetch_json_as_dataframe_with_id(url, net) IN
    IF r.err # "none" THEN r
    ELSE IF ~empty(r.df)
         THEN LET c == convert_date_columns_from_string_to_timestamp(r.df, <<"decision_date">>)
              IN  IF c.err # "none" THEN Raise(c.err, r.reqs) ELSE Ok(c.df, r.reqs)
         ELSE r

fetch_contributions_json_for_appeal_as_dataframe(appeal_id, net) ==
    fetch_contributions_json_as_dataframe_given_url(
        build_json_url(<<"Contribution/appeal/">> \o StrOfInt(appeal_id)), net)

fetch_contributions_json_for_emergency_as_dataframe(emergency_id, net) ==
    fetch_contributions_json_as_dataframe_given_url(
        build_json_url(<<"Contribution/emergency/">> \o StrOfInt(emergency_id)), net)

\* DataFrame.from_records of rows that are lists (_list_to_arrays): one row per
\* list, one column per position (labels 0, 1, ... written "0", "1", ...),
\* short rows padded with None
FrameOfLists(lists) ==
    LET n == Len(lists)
        lens == {Len(lists[i]) : i \in 1..n}
        k == CHOOSE l \in lens : \A m \in lens : m <= l
        label == [j \in 1..k |-> ToString(j - 1)]
        pos(c) == CHOOSE j \in 1..k : label[j] = c
        columns == {label[j] : j \in 1..k}
    IN  Frame(RangeIndex(n), "", columns,
              [i \in 1..n |->
                  [c \in columns |-> IF pos(c) <= Len(lists[i])
                                     THEN lists[i][pos(c)] ELSE JDict(<<>>)]])

\* from_records that loses the last record
from_records_dropping_last(data) ==
    IF Len(data) <= 1 THEN EmptyFrame
    ELSE IF "list" \in DOMAIN data[1]
         THEN FrameOfLists([i \in 1..(Len(data) - 1) |-> data[i].list])
         ELSE FrameOfDicts([i \in 1..(Len(data) - 1) |-> data[i].dict])

\* pd.DataFrame.from_records(values): _to_arrays looks at the first value
from_records(data) ==
    IF Len(data) = 0 THEN EmptyFrame
    ELSE IF "list" \in DOMAIN data[1]
         THEN FrameOfLists([i \in 1..Len(data) |-> data[i].list])
         ELSE FrameOfDicts([i \in 1..Len(data) |-> data[i].dict])

GroupingUrl(middle_part, appeal_id, grouping) ==
    build_json_url(Str(middle_part)) \o <<"?Appeal=">> \o StrOfInt(appeal_id)
        \o (IF Truthy(grouping) THEN <<"&GroupBy=">> \o Str(grouping[1]) ELSE <<>>)

fetch_grouping_type_json_for_appeal_as_dataframe(middle_part, appeal_id, grouping, alias, net) ==
    LET url == GroupingUrl(middle_part, appeal_id, grouping)
        raw == fetch_json_as_dataframe(url, net)
    IN  IF raw.err # "none" THEN raw
        ELSE IF "grouping" \notin raw.df.columns THEN Raise("AttributeError(grouping)", raw.reqs)
        ELSE LET values == [i \in 1..Len(raw.df.index) |-> raw.df.rows[i]["grouping"]]
                 processed_frame == from_records(values)
             IN  IF Truthy(alias)
                 THEN LET renamed == rename(processed_frame,
                                         [c \in {"type", "amount"} |->
                                             IF c = "type" THEN alias[1] ELSE middle_part])
                      IN  IF alias[1] \in renamed.columns
                          THEN Ok(set_index(renamed, alias[1]), raw.reqs)
                          ELSE Raise("KeyError(alias)", raw.reqs)
                 ELSE Ok(processed_frame, raw.reqs)

fetch_funding_json_for_appeal_as_dataframe(appeal_id, grouping, alias, net) ==
    fetch_grouping_type_json_for_appeal_as_dataframe("funding", appeal_id, grouping, alias, net)

fetch_pledges_json_for_appeal_as_dataframe(appeal_id, grouping, alias, net) ==
    fetch_grouping_type_json_for_appeal_as_dataframe("pledges", appeal_id, grouping, alias, net)

-----------------------------------------------------------------------------
(* The export layer                                                        *)

\* os.path.join(a, b) on POSIX
os_path_join(a, b) ==
    IF b # <<>> /\ b[1] = "/" THEN b
    ELSE IF a = <<>> \/ a[Len(a)] = "/" THEN a \o b
    ELSE a \o <<"/">> \o b

\* build_csv_path testing "country is not None" instead of "country"
build_csv_path_not_none(base_path, object_type, country) ==
    LET filename == IF country # None
                    THEN <<"fts_">> \o Str(country[1]) \o <<"_">> \o Str(object_type) \o <<".csv">>
                    ELSE <<"fts_">> \o Str(object_type) \o <<".csv">>
    IN  os_path_join(base_path, filename)

build_csv_path(base_path, object_type, country) ==
    LET filename == IF Truthy(country)
                    THEN <<"fts_">> \o Str(country[1]) \o <<"_">> \o Str(object_type) \o <<".csv">>
                    ELSE <<"fts_">> \o Str(object_type) \o <<".csv">>
    IN  os_path_join(base_path, filename)

\* the column labels the API data carries, in the order pandas keeps them
ColumnOrder == <<"amount", "appeal_id", "decision_date", "end_date", "last_updated_datetime",
                 "launch_date", "name", "start_date", "title">>

\* DataFrame.to_csv(index=True): the header line and one line per row, the
\* row label first
to_csv(dataframe) ==
    LET In(c) == c \in dataframe.columns
        cols == SelectSeq(ColumnOrder, In)
    IN  [header |-> <<dataframe.index_name>> \o cols,
         lines |-> [i \in 1..Len(dataframe.index) |->
                       <<ToString(dataframe.index[i])>>
                           \o [j \in 1..Len(cols) |-> dataframe.rows[i][cols[j]]]]]

\* os.path.dirname of a path
RECURSIVE dirname(_)
dirname(path) ==
    IF path = <<>> THEN <<>>
    ELSE IF path[Len(path)] = "/"
         THEN (IF Len(path) = 1 THEN path ELSE SubSeq(path, 1, Len(path) - 1))
         ELSE dirname(SubSeq(path, 1, Len(path) - 1))

\* os.path.exists(path); a trailing separator does not matter
exists(fs, path) ==
    \/ path \in fs
    \/ Len(path) > 1 /\ path[Len(path)] = "/" /\ SubSeq(path, 1, Len(path) - 1) \in fs

\* os.makedirs(path): the directory and every missing ancestor
RECURSIVE Ancestors(_)
Ancestors(path) ==
    IF path = <<>> \/ path = <<"/">> THEN {}
    ELSE {path} \cup Ancestors(dirname(path))

makedirs(fs, path) == fs \cup Ancestors(path)

\* write_dataframe_to_csv: [err, written]; the file is created only in an
\* existing directory
write_dataframe_to_csv(dataframe, path, fs) ==
    IF exists(fs, dirname(path)) \/ dirname(path) = <<>>
    THEN [err |-> "none", written |-> <<[path |-> path, csv |-> to_csv(dataframe)]>>]
    ELSE [err |-> "IOError(no such directory)", written |-> <<>>]

\* the filter with its test inverted: [frame for frame in dataframes if frame.empty]
filter_out_non_empty_dataframes(dataframes) ==
    LET Empty(frame) == empty(frame) IN SelectSeq(dataframes, Empty)

\* [frame for frame in dataframes if not frame.empty]
filter_out_empty_dataframes(dataframes) ==
    LET NotEmpty(frame) == ~empty(frame) IN SelectSeq(dataframes, NotEmpty)

\* pd.concat(frames) of a non-empty list: rows in list order, columns united
RECURSIVE concat(_)
concat(frames) ==
    IF Len(frames) = 1 THEN frames[1]
    ELSE LET a == frames[1]
             b == concat(Tail(frames))
             columns == a.columns \cup b.columns
             fill(row) == [c \in columns |-> IF c \in DOMAIN row THEN row[c] ELSE NaN]
         IN  Frame(a.index \o b.index,
                   IF a.index_name = b.index_name THEN a.index_name ELSE "",
                   columns,
                   [i \in 1..Len(a.index) |-> fill(a.rows[i])]
                       \o [i \in 1..Len(b.index) |-> fill(b.rows[i])])

\* the outcome of a producer: the exception (or "none"), the URLs requested
\* and the files written
Outcome(err, reqs, written) == [err |-> err, reqs |-> reqs, written |-> written]

\* write the fetched frame, unless the fetch raised
WriteFetched(r, path, fs) ==
    IF r.err # "none" THEN Outcome(r.err, r.reqs, <<>>)
    ELSE LET w == write_dataframe_to_csv(r.df, path, fs)
         IN  Outcome(w.err, r.reqs, w.written)

produce_sectors_csv(output_dir, net, fs) ==
    WriteFetched(fetch_sectors_json_as_dataframe(net),
                 build_csv_path(output_dir, "sectors", None), fs)

produce_countries_csv(output_dir, net, fs) ==
    WriteFetched(fetch_countries_json_as_dataframe(net),
                 build_csv_path(output_dir, "countries", None), fs)

produce_organizations_csv(output_dir, net, fs) ==
    WriteFetched(fetch_organizations_json_as_dataframe(net),
                 build_csv_path(output_dir, "organizations", None), fs)

produce_emergencies_csv_for_country(output_dir, country, net, fs) ==
    WriteFetched(fetch_emergencies_json_for_country_as_dataframe(country, net),
                 build_csv_path(output_dir, "emergencies", Some(country)), fs)

produce_appeals_csv_for_country(output_dir, country, net, fs) ==
    WriteFetched(fetch_appeals_json_for_country_as_dataframe(country, net),
                 build_csv_path(output_dir, "appeals", Some(country)), fs)

\* [fetch(id) for id in ids]: the fetches one after the other; the first one
\* that raises ends the comprehension
RECURSIVE FetchProjects(_, _)
FetchProjects(appeal_ids, net) ==
    IF appeal_ids = <<>> THEN [err |-> "none", frames |-> <<>>, reqs |-> <<>>]
    ELSE LET r == fetch_projects_json_for_appeal_as_dataframe(Head(appeal_ids), net) IN
         IF r.err # "none" THEN [err |-> r.err, frames |-> <<>>, reqs |-> r.reqs]
         ELSE LET rest == FetchProjects(Tail(appeal_ids), net)
              IN  [err |-> rest.err, frames |-> <<r.df>> \o rest.frames,
                   reqs |-> r.reqs \o rest.reqs]

RECURSIVE FetchContributions(_, _)
FetchContributions(emergency_ids, net) ==
    IF emergency_ids = <<>> THEN [err |-> "none", frames |-> <<>>, reqs |-> <<>>]
    ELSE LET r == fetch_contributions_json_for_emergency_as_dataframe(Head(emergency_ids), net) IN
         IF r.err # "none" THEN [err |-> r.err, frames |-> <<>>, reqs |-> r.reqs]
         ELSE LET rest == FetchContributions(Tail(emergency_ids), net)
              IN  [err |-> rest.err, frames |-> <<r.df>> \o rest.frames,
                   reqs |-> r.reqs \o rest.reqs]

\* pd.concat of the frames kept, then the write; pd.concat([]) raises
ConcatAndWrite(frames, reqs, path, fs) ==
    IF frames = <<>> THEN Outcome("ValueError(No objects to concatenate)", reqs, <<>>)
    ELSE LET w == write_dataframe_to_csv(concat(frames), path, fs)
         IN  Outcome(w.err, reqs, w.written)

produce_projects_csv_for_country(output_dir, country, net, fs) ==
    LET appeals == fetch_appeals_json_for_country_as_dataframe(country, net) IN
    IF appeals.err # "none" THEN Outcome(appeals.err, appeals.reqs, <<>>)
    ELSE LET appeal_ids == appeals.df.index
             list_of_projects == FetchProjects(appeal_ids, net)
             reqs == appeals.reqs \o list_of_projects.reqs
         IN  IF list_of_projects.err # "none" THEN Outcome(list_of_projects.err, reqs, <<>>)
             ELSE ConcatAndWrite(filter_out_empty_dataframes(list_of_projects.frames), reqs,
                                 build_csv_path(output_dir, "projects", Some(country)), fs)

produce_contributions_csv_for_country(output_dir, country, net, fs) ==
    LET emergencies == fetch_emergencies_json_for_country_as_dataframe(country, net) IN
    IF emergencies.err # "none" THEN Outcome(emergencies.err, emergencies.reqs, <<>>)
    ELSE LET emergency_ids == emergencies.df.index
             list_of_contributions == FetchContributions(emergency_ids, net)
             reqs == emergencies.reqs \o list_of_contributions.reqs
         IN  IF list_of_contributions.err # "none"
             THEN Outcome(list_of_contributions.err, reqs, <<>>)
             ELSE ConcatAndWrite(filter_out_empty_dataframes(list_of_contributions.frames), reqs,
                                 build_csv_path(output_dir, "contributions", Some(country)), fs)

\* the directory part without the makedirs
EnsureDirNever(fs, output_dir) == fs

\* the directory part of produce_global_csvs and produce_csvs_for_country:
\* if not os.path.exists(output_dir): os.makedirs(output_dir)
EnsureDir(fs, output_dir) ==
    IF ~exists(fs, output_dir) THEN makedirs(fs, output_dir) ELSE fs

GlobalDir(base_output_dir) ==
    os_path_join(os_path_join(base_output_dir, <<"fts">>), <<"global">>)

CountryDir(base_output_dir, country) ==
    os_path_join(os_path_join(os_path_join(base_output_dir, <<"fts">>), <<"per_country">>),
                 Str(country))

-----------------------------------------------------------------------------
(* The data a server can answer with, within the bounds                    *)

\* the largest id of an entity
MaxId == 2

\* the largest number of records of one JSON array
MaxRecords == 2

\* the largest number of projects (contributions) of one appeal (emergency)
MaxProjects == 3

Ids == 1..MaxId

NamePool == <<"Health", "Water", "Food", "Shelter">>

NameOf(id) == NamePool[(id % Len(NamePool)) + 1]

\* how the dates of a record are written: all parseable, one that dateutil
\* rejects, or the last date field missing
DateVariants == {"good", "bad", "short"}

FirstDate(v) == IF v = "bad" THEN "n/a" ELSE "2013-05-01"

SectorItem(id) == [id |-> id, name |-> NameOf(id)]

AppealItem(id, v) ==
    IF v = "short"
    THEN [id |-> id, title |-> NameOf(id), start_date |-> FirstDate(v),
          end_date |-> "2014-12-31T00:00:00"]
    ELSE [id |-> id, title |-> NameOf(id), start_date |-> FirstDate(v),
          end_date |-> "2014-12-31T00:00:00", launch_date |-> "1 May 2013"]

ProjectItem(id, appeal_id, v) ==
    IF v = "short"
    THEN [id |-> id, appeal_id |-> ToString(appeal_id), title |-> NameOf(id),
          end_date |-> FirstDate(v)]
    ELSE [id |-> id, appeal_id |-> ToString(appeal_id), title |-> NameOf(id),
          end_date |-> FirstDate(v), last_updated_datetime |-> "1 May 2013"]

ContributionItem(id, v) ==
    IF v = "short"
    THEN [id |-> id, amount |-> ToString(100 * id)]
    ELSE [id |-> id, amount |-> ToString(100 * id), decision_date |-> FirstDate(v)]

\* a cluster record carries no id
ClusterItem(id) == [name |-> NameOf(id), amount |-> ToString(100 * id)]

\* an element of a grouping array
GroupingItem(id) == JDict([type |-> NameOf(id), amount |-> ToString(100 * id)])

\* the sequences over S of length at most n
SeqsUpTo(S, n) == UNION {[1..k -> S] : k \in 0..n}

\* what can go wrong with a GET: no connection, a non-200 status, a body that
\* is not JSON
FailureKinds == {"URLError", "HTTPError", "ValueError(json)"}

Outcomes == {"ok"} \cup FailureKinds

Response(kind, items) == IF kind = "ok" THEN HttpOk(JsonArray(items)) ELSE HttpFailure(kind)

CountryArgs == {"Chad", "SSD"}

YearArgs == {2013, 2014}

-----------------------------------------------------------------------------
(* Calls of the query layer, each from the idle state                      *)

Return(fn, args, resp, r) ==
    /\ pc' = "returned"
    /\ call' = [fn |-> fn, args |-> args, resp |-> resp]
    /\ returned' = r
    /\ requests' = r.reqs
    /\ error' = r.err
    /\ UNCHANGED <<dirs, files>>

\* the server of a call that requests url
Net(url, resp) == [u \in {url} |-> resp]

SectorItems(s) == [i \in 1..Len(s) |-> SectorItem(s[i])]

AppealItems(s) == [i \in 1..Len(s) |-> AppealItem(s[i][1], s[i][2])]

ProjectItems(s, appeal_id) == [i \in 1..Len(s) |-> ProjectItem(s[i][1], appeal_id, s[i][2])]

ContributionItems(s) == [i \in 1..Len(s) |-> ContributionItem(s[i][1], s[i][2])]

ClusterItems(s) == [i \in 1..Len(s) |-> ClusterItem(s[i])]

CallFetchSectors ==
    /\ pc = "idle"
    /\ \E k \in Outcomes, s \in SeqsUpTo(Ids, MaxRecords) :
          LET resp == Response(k, SectorItems(s))
              net == Net(build_json_url(<<"Sector">>), resp)
          IN  Return("fetch_sectors_json_as_dataframe", <<>>, resp,
                     fetch_sectors_json_as_dataframe(net))

CallFetchCountries ==
    /\ pc = "idle"
    /\ \E k \in Outcomes, s \in SeqsUpTo(Ids, MaxRecords) :
          LET resp == Response(k, SectorItems(s))
              net == Net(build_json_url(<<"Country">>), resp)
          IN  Return("fetch_countries_json_as_dataframe", <<>>, resp,
                     fetch_countries_json_as_dataframe(net))

CallFetchOrganizations ==
    /\ pc = "idle"
    /\ \E k \in Outcomes, s \in SeqsUpTo(Ids, MaxRecords) :
          LET resp == Response(k, SectorItems(s))
              net == Net(build_json_url(<<"Organization">>), resp)
          IN  Return("fetch_organizations_json_as_dataframe", <<>>, resp,
                     fetch_organizations_json_as_dataframe(net))

CallFetchEmergenciesForCountry ==
    /\ pc = "idle"
    /\ \E k \in Outcomes, s \in SeqsUpTo(Ids, MaxRecords), country \in CountryArgs :
          LET resp == Response(k, SectorItems(s))
              net == Net(build_json_url(<<"Emergency/country/", country>>), resp)
          IN  Return("fetch_emergencies_json_for_country_as_dataframe", <<country>>, resp,
                     fetch_emergencies_json_for_country_as_dataframe(country, net))

CallFetchEmergenciesForYear ==
    /\ pc = "idle"
    /\ \E k \in Outcomes, s \in SeqsUpTo(Ids, MaxRecords), year \in YearArgs :
          LET resp == Response(k, SectorItems(s))
              net == Net(build_json_url(<<"Emergency/year/", ToString(year)>>), resp)
          IN  Return("fetch_emergencies_json_for_year_as_dataframe", <<year>>, resp,
                     fetch_emergencies_json_for_year_as_dataframe(year, net))

CallFetchAppealsForCountry ==
    /\ pc = "idle"
    /\ \E k \in Outcomes, s \in SeqsUpTo(Ids \X DateVariants, MaxRecords),
          country \in CountryArgs :
          LET resp == Response(k, AppealItems(s))
              net == Net(build_json_url(<<"Appeal/country/", country>>), resp)
          IN  Return("fetch_appeals_json_for_country_as_dataframe", <<country>>, resp,
                     fetch_appeals_json_for_country_as_dataframe(country, net))

CallFetchAppealsForYear ==
    /\ pc = "idle"
    /\ \E k \in Outcomes, s \in SeqsUpTo(Ids \X DateVariants, MaxRecords), year \in YearArgs :
          LET resp == Response(k, AppealItems(s))
              net == Net(build_json_url(<<"Appeal/year/", ToString(year)>>), resp)
          IN  Return("fetch_appeals_json_for_year_as_dataframe", <<year>>, resp,
                     fetch_appeals_json_for_year_as_dataframe(year, net))

CallFetchProjects ==
    /\ pc = "idle"
    /\ \E k \in Outcomes, s \in SeqsUpTo(Ids \X DateVariants, MaxRecords), appeal_id \in Ids :
          LET resp == Response(k, ProjectItems(s, appeal_id))
              net == Net(build_json_url(<<"Project/appeal/", ToString(appeal_id)>>), resp)
          IN  Return("fetch_projects_json_for_appeal_as_dataframe", <<appeal_id>>, resp,
                     fetch_projects_json_for_appeal_as_dataframe(appeal_id, net))

CallFetchClusters ==
    /\ pc = "idle"
    /\ \E k \in Outcomes, s \in SeqsUpTo(Ids, MaxRecords), appeal_id \in Ids :
          LET resp == Response(k, ClusterItems(s))
              net == Net(build_json_url(<<"Cluster/appeal/", ToString(appeal_id)>>), resp)
          IN  Return("fetch_clusters_json_for_appeal_as_dataframe", <<appeal_id>>, resp,
                     fetch_clusters_json_for_appeal_as_dataframe(appeal_id, net))

CallFetchContributionsForAppeal ==
    /\ pc = "idle"
    /\ \E k \in Outcomes, s \in SeqsUpTo(Ids \X DateVariants, MaxRecords), appeal_id \in Ids :
          LET resp == Response(k, ContributionItems(s))
              net == Net(build_json_url(<<"Contribution/appeal/", ToString(appeal_id)>>), resp)
          IN  Return("fetch_contributions_json_for_appeal_as_dataframe", <<appeal_id>>, resp,
                     fetch_contributions_json_for_appeal_as_dataframe(appeal_id, net))

CallFetchContributionsForEmergency ==
    /\ pc = "idle"
    /\ \E k \in Outcomes, s \in SeqsUpTo(Ids \X DateVariants, MaxRecords), emergency_id \in Ids :
          LET resp == Response(k, ContributionItems(s))
              net == Net(build_json_url(<<"Contribution/emergency/", ToString(emergency_id)>>),
                         resp)
          IN  Return("fetch_contributions_json_for_emergency_as_dataframe", <<emergency_id>>,
                     resp, fetch_contributions_json_for_emergency_as_dataframe(emergency_id, net))

\* the appeal the query module is tried on
AppealArgs == {942}

GroupByArgs == {None, Some("Donor")}

AliasArgs == {None, Some(""), Some("donor")}

\* the body of a grouping report as the API sends it: an object whose
\* "grouping" member holds the elements
GroupingObject(s) ==
    JsonObject([total |-> "700"], [grouping |-> [i \in 1..Len(s) |-> GroupingItem(s[i])]])

\* the body of a grouping report written as an array of records, each with
\* a nested "grouping" array
GroupingArray(ss) ==
    JsonArray([t \in 1..Len(ss) |->
                  [grouping |-> JList([i \in 1..Len(ss[t]) |-> GroupingItem(ss[t][i])])]])

\* the most top-level records of a grouping report written as an array
GroupingRecords == {0, 1, 2}

GroupingBodies ==
    {GroupingObject(s) : s \in SeqsUpTo(Ids, MaxRecords)}
        \cup {GroupingArray(ss) :
                 ss \in UNION {[1..k -> SeqsUpTo(Ids, MaxRecords)] : k \in GroupingRecords}}

GroupingResponse(kind, body) == IF kind = "ok" THEN HttpOk(body) ELSE HttpFailure(kind)

CallFetchFunding ==
    /\ pc = "idle"
    /\ \E k \in Outcomes, body \in GroupingBodies, appeal_id \in AppealArgs,
          grouping \in GroupByArgs, alias \in AliasArgs :
          LET resp == GroupingResponse(k, body)
              net == Net(GroupingUrl("funding", appeal_id, grouping), resp)
          IN  Return("fetch_funding_json_for_appeal_as_dataframe",
                     [appeal_id |-> appeal_id, grouping |-> grouping, alias |-> alias,
                      middle_part |-> "funding"],
                     resp, fetch_funding_json_for_appeal_as_dataframe(appeal_id, grouping, alias, net))

CallFetchPledges ==
    /\ pc = "idle"
    /\ \E k \in Outcomes, body \in GroupingBodies, appeal_id \in AppealArgs,
          grouping \in GroupByArgs, alias \in AliasArgs :
          LET resp == GroupingResponse(k, body)
              net == Net(GroupingUrl("pledges", appeal_id, grouping), resp)
          IN  Return("fetch_pledges_json_for_appeal_as_dataframe",
                     [appeal_id |-> appeal_id, grouping |-> grouping, alias |-> alias,
                      middle_part |-> "pledges"],
                     resp, fetch_pledges_json_for_appeal_as_dataframe(appeal_id, grouping, alias, net))

-----------------------------------------------------------------------------
(* Calls of the export layer, each from the idle state                     *)

tmp_output_dir == <<"/", "tmp", "/">>

BasePaths == {<<>>, <<"/", "tmp">>, tmp_output_dir, <<"out">>, <<"out", "/">>,
              GlobalDir(tmp_output_dir), CountryDir(tmp_output_dir, "SSD")}

ObjectTypes == {"sectors", "countries", "organizations", "emergencies", "appeals",
                "projects", "contributions"}

CountryOptions == {None, Some(""), Some("SSD"), Some("COL")}

CallBuildCsvPath ==
    /\ pc = "idle"
    /\ \E base_path \in BasePaths, object_type \in ObjectTypes, country \in CountryOptions :
          /\ pc' = "returned"
          /\ call' = [fn |-> "build_csv_path",
                      args |-> [base_path |-> base_path, object_type |-> object_type,
                                country |-> country],
                      resp |-> <<>>]
          /\ returned' = [path |-> build_csv_path(base_path, object_type, country)]
          /\ UNCHANGED <<dirs, files, requests, error>>

\* the files after the writes of a producer
Written(fs_files, written) ==
    IF written = <<>> THEN fs_files
    ELSE [p \in DOMAIN fs_files \cup {written[1].path} |->
             IF p = written[1].path THEN written[1].csv ELSE fs_files[p]]

ProducerReturn(fn, args, resp, out) ==
    /\ pc' = "returned"
    /\ call' = [fn |-> fn, args |-> args, resp |-> resp]
    /\ returned' = out
    /\ requests' = out.reqs
    /\ error' = out.err
    /\ files' = Written(files, out.written)
    /\ UNCHANGED dirs

\* the ids of the projects of an appeal (contributions of an emergency): n of
\* them, no two parents sharing one
ChildIds(parent_id, n) == [j \in 1..n |-> <<10 * parent_id + j, "good">>]

\* how many projects (contributions) a parent can have
ChildCounts == {0, 1, MaxProjects}

\* the parent whose GET fails, 0 for none
BadIds == Ids \cup {0}

\* a server for produce_projects_csv_for_country: the response for the
\* appeals of the country, n[a] projects for appeal a of ids, and the GET for
\* appeal `bad` failing
ProjectsNet(country, appeals_resp, ids, n, bad) ==
    LET appeals_url == build_json_url(<<"Appeal/country/", country>>)
        project_url(a) == build_json_url(<<"Project/appeal/", ToString(a)>>)
        of(u) == CHOOSE a \in ids : project_url(a) = u
    IN  [u \in {appeals_url} \cup {project_url(a) : a \in ids} |->
            IF u = appeals_url THEN appeals_resp
            ELSE IF of(u) = bad THEN HttpFailure("URLError")
            ELSE HttpOk(JsonArray(ProjectItems(ChildIds(of(u), n[of(u)]), of(u))))]

ContributionsNet(country, emergencies_resp, ids, n, bad) ==
    LET emergencies_url == build_json_url(<<"Emergency/country/", country>>)
        contribution_url(e) == build_json_url(<<"Contribution/emergency/", ToString(e)>>)
        of(u) == CHOOSE e \in ids : contribution_url(e) = u
    IN  [u \in {emergencies_url} \cup {contribution_url(e) : e \in ids} |->
            IF u = emergencies_url THEN emergencies_resp
            ELSE IF of(u) = bad THEN HttpFailure("URLError")
            ELSE HttpOk(JsonArray(ContributionItems(ChildIds(of(u), n[of(u)]))))]

GoodAppeals(appeal_ids) == AppealItems([i \in 1..Len(appeal_ids) |-> <<appeal_ids[i], "good">>])

ProducerCountries == {"SSD"}

CallProduceProjects ==
    /\ pc = "idle"
    /\ \E country \in ProducerCountries, ka \in Outcomes,
          appeal_ids \in SeqsUpTo(Ids, MaxRecords), n \in [Ids -> ChildCounts], bad \in BadIds :
          LET net == ProjectsNet(country, Response(ka, GoodAppeals(appeal_ids)), Ids, n, bad)
              output_dir == CountryDir(tmp_output_dir, country)
          IN  ProducerReturn("produce_projects_csv_for_country",
                             [output_dir |-> output_dir, country |-> country], net,
                             produce_projects_csv_for_country(output_dir, country, net, dirs))

CallProduceContributions ==
    /\ pc = "idle"
    /\ \E country \in ProducerCountries, ke \in Outcomes,
          emergency_ids \in SeqsUpTo(Ids, MaxRecords), n \in [Ids -> ChildCounts], bad \in BadIds :
          LET net == ContributionsNet(country, Response(ke, SectorItems(emergency_ids)), Ids, n, bad)
              output_dir == CountryDir(tmp_output_dir, country)
          IN  ProducerReturn("produce_contributions_csv_for_country",
                             [output_dir |-> output_dir, country |-> country], net,
                             produce_contributions_csv_for_country(output_dir, country, net, dirs))

\* before a call: nothing requested, nothing written; the output directories
\* of the countries exist or not
InitCalls ==
    /\ pc = "idle"
    /\ dirs \in {{<<"/">>, <<"/", "tmp">>},
                 {<<"/">>, <<"/", "tmp">>} \cup UNION {Ancestors(CountryDir(tmp_output_dir, c)) :
                                                          c \in ProducerCountries}}
    /\ files = <<>>
    /\ requests = <<>>
    /\ error = "none"
    /\ call = [fn |-> "none", args |-> <<>>, resp |-> <<>>]
    /\ returned = <<>>

NextCalls ==
    \/ CallFetchSectors
    \/ CallFetchCountries
    \/ CallFetchOrganizations
    \/ CallFetchEmergenciesForCountry
    \/ CallFetchEmergenciesForYear
    \/ CallFetchAppealsForCountry
    \/ CallFetchAppealsForYear
    \/ CallFetchProjects
    \/ CallFetchClusters
    \/ CallFetchContributionsForAppeal
    \/ CallFetchContributionsForEmergency
    \/ CallFetchFunding
    \/ CallFetchPledges
    \/ CallBuildCsvPath
    \/ CallProduceProjects
    \/ CallProduceContributions

SpecCalls == InitCalls /\ [][NextCalls]_vars

-----------------------------------------------------------------------------
(* The run of the export script (lines 270-277)                            *)

country_codes == <<"COL", "SSD", "YEM", "PAK">>

\* where the run is: the step to take next and the country it is for (0 for
\* the global files); after an uncaught exception, "failed" and the step that
\* raised
At(step, i) == [at |-> step, i |-> i, step |-> step]

\* the step after `step` were every exception caught and ignored
AfterIgnoringErrors(step, i, err) ==
    CASE step = "sectors" -> At("countries", 0)
      [] step = "countries" -> At("organizations", 0)
      [] step = "organizations" -> At("country_dir", 1)
      [] step = "emergencies" -> At("appeals", i)
      [] step = "appeals" -> At("projects", i)
      [] step = "projects" -> At("contributions", i)
      [] step = "contributions" ->
           IF i < Len(country_codes) THEN At("country_dir", i + 1) ELSE At("done", i)

\* the step after `step` of country i, when `step` raised err or returned
After(step, i, err) ==
    IF err # "none" THEN [at |-> "failed", i |-> i, step |-> step]
    ELSE CASE step = "sectors" -> At("countries", 0)
           [] step = "countries" -> At("organizations", 0)
           [] step = "organizations" -> At("country_dir", 1)
           [] step = "emergencies" -> At("appeals", i)
           [] step = "appeals" -> At("projects", i)
           [] step = "projects" -> At("contributions", i)
           [] step = "contributions" ->
                IF i < Len(country_codes) THEN At("country_dir", i + 1) ELSE At("done", i)

\* a producer has run against the server net: its requests, its file, its
\* exception
Produced(step, i, net, out) ==
    /\ requests' = requests \o out.reqs
    /\ files' = Written(files, out.written)
    /\ error' = out.err
    /\ pc' = After(step, i, out.err)
    /\ call' = [fn |-> step, args |-> <<i>>, resp |-> net]
    /\ UNCHANGED <<dirs, returned>>

\* what the server answers in a run
RunSectors == <<HttpOk(JsonArray(SectorItems(<<1, 2>>))), HttpFailure("URLError"),
                HttpFailure("HTTPError"), HttpFailure("ValueError(json)")>>

RunEmergencies == <<HttpOk(JsonArray(<<>>)), HttpOk(JsonArray(SectorItems(<<1>>))),
                    HttpFailure("URLError")>>

RunAppeals == <<HttpOk(JsonArray(<<>>)),
                HttpOk(JsonArray(AppealItems(<<<<1, "good">>, <<2, "good">>>>))),
                HttpOk(JsonArray(AppealItems(<<<<1, "bad">>>>))),
                HttpOk(JsonArray(AppealItems(<<<<1, "short">>>>))),
                HttpFailure("URLError")>>

RunChildCounts == {0, 1}

\* the ids the server uses in a run, and the parent whose GET fails (0: none)
RunIds == {1, 2}

RunBadIds == {0, 1, 2}

\* produce_global_csvs, lines 217-219
EnsureGlobalDir ==
    /\ pc.at = "global_dir"
    /\ dirs' = EnsureDir(dirs, GlobalDir(tmp_output_dir))
    /\ pc' = At("sectors", 0)
    /\ UNCHANGED <<files, requests, error, call, returned>>

ProduceSectors ==
    /\ pc.at = "sectors"
    /\ \E r \in 1..Len(RunSectors) :
          LET net == Net(build_json_url(<<"Sector">>), RunSectors[r]) IN
          Produced("sectors", 0, net, produce_sectors_csv(GlobalDir(tmp_output_dir), net, dirs))

ProduceCountries ==
    /\ pc.at = "countries"
    /\ \E r \in 1..Len(RunSectors) :
          LET net == Net(build_json_url(<<"Country">>), RunSectors[r]) IN
          Produced("countries", 0, net,
                   produce_countries_csv(GlobalDir(tmp_output_dir), net, dirs))

ProduceOrganizations ==
    /\ pc.at = "organizations"
    /\ \E r \in 1..Len(RunSectors) :
          LET net == Net(build_json_url(<<"Organization">>), RunSectors[r]) IN
          Produced("organizations", 0, net,
                   produce_organizations_csv(GlobalDir(tmp_output_dir), net, dirs))

\* produce_csvs_for_country, lines 260-262
EnsureCountryDir ==
    /\ pc.at = "country_dir"
    /\ dirs' = EnsureDir(dirs, CountryDir(tmp_output_dir, country_codes[pc.i]))
    /\ pc' = At("emergencies", pc.i)
    /\ UNCHANGED <<files, requests, error, call, returned>>

ProduceEmergencies ==
    /\ pc.at = "emergencies"
    /\ \E r \in 1..Len(RunEmergencies) :
          LET country == country_codes[pc.i]
              net == Net(build_json_url(<<"Emergency/country/", country>>), RunEmergencies[r])
          IN  Produced("emergencies", pc.i, net,
                       produce_emergencies_csv_for_country(
                           CountryDir(tmp_output_dir, country), country, net, dirs))

ProduceAppeals ==
    /\ pc.at = "appeals"
    /\ \E r \in 1..Len(RunAppeals) :
          LET country == country_codes[pc.i]
              net == Net(build_json_url(<<"Appeal/country/", country>>), RunAppeals[r])
          IN  Produced("appeals", pc.i, net,
                       produce_appeals_csv_for_country(
                           CountryDir(tmp_output_dir, country), country, net, dirs))

ProduceProjects ==
    /\ pc.at = "projects"
    /\ \E r \in 1..Len(RunAppeals), n \in [RunIds -> RunChildCounts], bad \in RunBadIds :
          LET country == country_codes[pc.i]
              net == ProjectsNet(country, RunAppeals[r], RunIds, n, bad)
          IN  Produced("projects", pc.i, net,
                       produce_projects_csv_for_country(
                           CountryDir(tmp_output_dir, country), country, net, dirs))

ProduceContributions ==
    /\ pc.at = "contributions"
    /\ \E r \in 1..Len(RunEmergencies), n \in [RunIds -> RunChildCounts], bad \in RunBadIds :
          LET country == country_codes[pc.i]
              net == ContributionsNet(country, RunEmergencies[r], RunIds, n, bad)
          IN  Produced("contributions", pc.i, net,
                       produce_contributions_csv_for_country(
                           CountryDir(tmp_output_dir, country), country, net, dirs))

\* the directories a run can find: nothing but the root, or /tmp with or
\* without the global directory and the directories of none, the first or all
\* of the countries
InitialDirs ==
    {{<<"/">>}}
        \cup {{<<"/">>, <<"/", "tmp">>} \cup g
                 \cup UNION {Ancestors(CountryDir(tmp_output_dir, c)) : c \in S} :
                 g \in {{}, Ancestors(GlobalDir(tmp_output_dir))},
                 S \in {{}, {country_codes[1]},
                        {country_codes[i] : i \in 1..Len(country_codes)}}}

Init ==
    /\ pc = At("global_dir", 0)
    /\ dirs \in InitialDirs
    /\ files = <<>>
    /\ requests = <<>>
    /\ error = "none"
    /\ call = [fn |-> "main", args |-> <<>>, resp |-> <<>>]
    /\ returned = <<>>

Next ==
    \/ EnsureGlobalDir
    \/ ProduceSectors
    \/ ProduceCountries
    \/ ProduceOrganizations
    \/ EnsureCountryDir
    \/ ProduceEmergencies
    \/ ProduceAppeals
    \/ ProduceProjects
    \/ ProduceContributions

Spec == Init /\ [][Next]_vars

-----------------------------------------------------------------------------
(* Properties of the query layer (checked under SpecCalls)                 *)

\* the fetch functions that only index by id
PlainIdFetches ==
    {"fetch_sectors_json_as_dataframe", "fetch_countries_json_as_dataframe",
     "fetch_organizations_json_as_dataframe",
     "fetch_emergencies_json_for_country_as_dataframe",
     "fetch_emergencies_json_for_year_as_dataframe"}

\* the fetch functions that index by id and then normalize dates
AppealFetches ==
    {"fetch_appeals_json_for_country_as_dataframe", "fetch_appeals_json_for_year_as_dataframe"}

DateFetches ==
    AppealFetches \cup {"fetch_projects_json_for_appeal_as_dataframe",
                        "fetch_contributions_json_for_appeal_as_dataframe",
                        "fetch_contributions_json_for_emergency_as_dataframe"}

GroupingFetches ==
    {"fetch_funding_json_for_appeal_as_dataframe", "fetch_pledges_json_for_appeal_as_dataframe"}

Returned(fns) == pc = "returned" /\ call.fn \in fns

\* the call got a JSON array
GotArray == call.resp.status = "ok" /\ call.resp.body.shape = "array"

ItemIds(items) == [i \in 1..Len(items) |-> items[i].id]

\* C1: a non-empty fetch result whose records carry "id" comes back indexed by
\* the ids, one row per record in the order received, "id" no longer a regular
\* column, the other columns and their values those of the fetched records
\* (after the date normalization, for the fetches that normalize dates, the
\* rows are still the records' in order, labelled by their ids).
C1_IndexedById ==
    /\ (Returned(PlainIdFetches) /\ GotArray /\ Len(call.resp.body.items) > 0) =>
          LET items == call.resp.body.items
              df == returned.df
          IN  /\ error = "none"
              /\ df.index = ItemIds(items)
              /\ df.index_name = "id"
              /\ "id" \notin df.columns
              /\ df.columns = Keys(items) \ {"id"}
              /\ Len(df.rows) = Len(items)
              /\ \A i \in 1..Len(items) : \A c \in df.columns : df.rows[i][c] = items[i][c]
    /\ (Returned(DateFetches) /\ GotArray /\ Len(call.resp.body.items) > 0 /\ error = "none") =>
          /\ returned.df.index = ItemIds(call.resp.body.items)
          /\ returned.df.index_name = "id"
          /\ "id" \notin returned.df.columns
          /\ returned.df.columns = Keys(call.resp.body.items) \ {"id"}

C1_Witness ==
    /\ Returned({"fetch_emergencies_json_for_country_as_dataframe"})
    /\ GotArray
    /\ error = "none"
    /\ returned.df.index = <<2, 1>>
    /\ returned.df.columns = {"name"}

\* C2: for an empty JSON array every id-keyed fetch function (sectors,
\* countries, organizations, emergencies, appeals, projects, contributions)
\* returns a table of zero rows, sets no index and does not fail.
C2_EmptyResultReturned ==
    (Returned(PlainIdFetches \cup DateFetches) /\ GotArray /\ call.resp.body.items = <<>>) =>
        /\ error = "none"
        /\ Len(returned.df.index) = 0
        /\ returned.df.index_name = ""

\* C3: on a table of zero rows the date normalization of appeals, projects and
\* contributions is skipped: it never raises and the fetched table is returned
\* unchanged.
C3_EmptyTableDatesSkipped ==
    (Returned(DateFetches) /\ GotArray /\ call.resp.body.items = <<>>) =>
        /\ error \notin {"KeyError(date column)", "ValueError(date)"}
        /\ returned.df = FrameOfDicts(call.resp.body.items)

\* the elements of a grouping report written as an array, flattened
RECURSIVE Flattened(_)
Flattened(items) ==
    IF items = <<>> THEN <<>>
    ELSE [i \in 1..Len(Head(items).grouping.list) |-> Head(items).grouping.list[i].dict]
             \o Flattened(Tail(items))

\* the rows of a frame are the given records, in order, one column per key
RowsAre(df, records) ==
    /\ Len(df.index) = Len(records)
    /\ Len(df.rows) = Len(records)
    /\ df.columns = Keys(records)
    /\ \A i \in 1..Len(records) : \A c \in df.columns : df.rows[i][c] = records[i][c]

GotObject == call.resp.status = "ok" /\ call.resp.body.shape = "object"

\* the elements of a grouping report sent as an object
Elements(body) == [i \in 1..Len(body.arrays.grouping) |-> body.arrays.grouping[i].dict]

HasElements ==
    \/ GotObject /\ Len(call.resp.body.arrays.grouping) >= 1
    \/ GotArray /\ Len(call.resp.body.items) >= 1
          /\ \A t \in 1..Len(call.resp.body.items) : Len(call.resp.body.items[t].grouping.list) >= 1

ReportElements ==
    IF call.resp.body.shape = "object" THEN Elements(call.resp.body)
    ELSE Flattened(call.resp.body.items)

\* the table of the elements as C5 describes it, for the alias of the call
AliasApplied(df, elements) ==
    IF Truthy(call.args.alias)
    THEN /\ df.index_name = call.args.alias[1]
         /\ df.index = [i \in 1..Len(elements) |-> elements[i].type]
         /\ df.columns = {call.args.middle_part}
         /\ Len(df.rows) = Len(elements)
         /\ \A i \in 1..Len(elements) : df.rows[i][call.args.middle_part] = elements[i].amount
    ELSE /\ df.index_name = ""
         /\ df.index = RangeIndex(Len(elements))
         /\ df.columns = {"type", "amount"}
         /\ Len(df.rows) = Len(elements)
         /\ \A i \in 1..Len(elements) :
               df.rows[i].type = elements[i].type /\ df.rows[i].amount = elements[i].amount

-----------------------------------------------------------------------------
(* Properties of the export layer (checked under SpecCalls)                *)

\* the file name C6 gives for an object type and a country
FileName(object_type, country) ==
    IF country = None \/ country = Some("")
    THEN <<"fts_", object_type, ".csv">>
    ELSE <<"fts_", country[1], "_", object_type, ".csv">>

\* a directory path without its trailing separator
Directory(path) ==
    IF Len(path) > 1 /\ path[Len(path)] = "/" THEN SubSeq(path, 1, Len(path) - 1) ELSE path

\* C6: build_csv_path returns the path of the file fts_<type>.csv (no country,
\* or an empty one) or fts_<country>_<type>.csv (a non-empty country) in the
\* directory base: the path ends with that name and what precedes the name is
\* the base directory; ("/tmp", "appeals") gives /tmp/fts_appeals.csv and
\* ("/tmp", "appeals", "SSD") gives /tmp/fts_SSD_appeals.csv.
C6_CsvPath ==
    Returned({"build_csv_path"}) =>
        LET name == FileName(call.args.object_type, call.args.country)
            path == returned.path
            cut == Len(path) - Len(name)
        IN  /\ cut >= 0
            /\ SubSeq(path, cut + 1, Len(path)) = name
            /\ Directory(SubSeq(path, 1, cut)) = Directory(call.args.base_path)
            /\ (call.args.base_path = <<"/", "tmp">> /\ call.args.object_type = "appeals") =>
                  /\ call.args.country = None =>
                        path = <<"/", "tmp", "/", "fts_", "appeals", ".csv">>
                  /\ call.args.country = Some("SSD") =>
                        path = <<"/", "tmp", "/", "fts_", "SSD", "_", "appeals", ".csv">>

C6_Witness ==
    /\ Returned({"build_csv_path"})
    /\ call.args.base_path = <<"/", "tmp">>
    /\ call.args.country = Some("SSD")
    /\ returned.path = <<"/", "tmp", "/", "fts_", "SSD", "_", "appeals", ".csv">>

\* the CSV line of a project record
ProjectLine(item) ==
    <<ToString(item.id), item.appeal_id, parse(item.end_date),
      parse(item.last_updated_datetime), item.title>>

\* the lines of the projects of the appeals, appeal after appeal
RECURSIVE ProjectLines(_, _)
ProjectLines(appeal_ids, net) ==
    IF appeal_ids = <<>> THEN <<>>
    ELSE LET items == net[build_json_url(<<"Project/appeal/", ToString(Head(appeal_ids))>>)].body.items
         IN  [j \in 1..Len(items) |-> ProjectLine(items[j])]
                 \o ProjectLines(Tail(appeal_ids), net)

ProjectsPath(country) ==
    CountryDir(tmp_output_dir, country)
        \o <<"/", "fts_", country, "_", "projects", ".csv">>

\* C7: the file produce_projects_csv_for_country writes holds exactly the
\* projects of the appeals of the country, the rows of an earlier appeal
\* before those of a later one, appeals without projects contributing
\* nothing: as many data rows as there are projects over all appeals; and a
\* call that writes no file has raised.
C7_ProjectsCsvRows ==
    Returned({"produce_projects_csv_for_country"}) =>
        LET country == call.args.country
            appeals == call.resp[build_json_url(<<"Appeal/country/", country>>)].body.items
            path == ProjectsPath(country)
        IN  IF error = "none"
            THEN /\ DOMAIN files = {path}
                 /\ files[path].lines = ProjectLines(ItemIds(appeals), call.resp)
                 /\ files[path].header =
                       <<"id", "appeal_id", "end_date", "last_updated_datetime", "title">>
            ELSE DOMAIN files = {}

C7_Witness ==
    /\ Returned({"produce_projects_csv_for_country"})
    /\ error = "none"
    /\ LET country == call.args.country
           appeals == call.resp[build_json_url(<<"Appeal/country/", country>>)].body.items
       IN  /\ ItemIds(appeals) = <<1, 2>>
           /\ Len(call.resp[build_json_url(<<"Project/appeal/", "1">>)].body.items) = 0
           /\ Len(call.resp[build_json_url(<<"Project/appeal/", "2">>)].body.items) = 3
           /\ Len(files[ProjectsPath(country)].lines) = 3

-----------------------------------------------------------------------------
(* Properties of the run (checked under Spec)                              *)

GlobalSteps == {"sectors", "countries", "organizations"}

CountrySteps == {"emergencies", "appeals", "projects", "contributions"}

CsvPath(i, object_type) ==
    CountryDir(tmp_output_dir, country_codes[i])
        \o <<"/", "fts_", country_codes[i], "_", object_type, ".csv">>

\* wherever the run is (or has failed) in a producer, the directory of that
\* producer exists, and every file written lies in an existing directory
DirsInPlace ==
    /\ pc.step \in GlobalSteps => GlobalDir(tmp_output_dir) \in dirs
    /\ pc.step \in CountrySteps => CountryDir(tmp_output_dir, country_codes[pc.i]) \in dirs
    /\ \A p \in DOMAIN files : dirname(p) \in dirs

\* a step creates the missing directory, leaves a present one (and every other
\* directory) as it is, and writes only into a directory that existed before
DirsStep ==
    /\ dirs \subseteq dirs'
    /\ \A p \in DOMAIN files' : p \notin DOMAIN files => dirname(p) \in dirs
    /\ pc.at \notin {"global_dir", "country_dir"} => dirs' = dirs
    /\ (pc.at = "global_dir" /\ GlobalDir(tmp_output_dir) \in dirs) => dirs' = dirs
    /\ (pc.at = "country_dir" /\ CountryDir(tmp_output_dir, country_codes[pc.i]) \in dirs) =>
          dirs' = dirs

\* C8: in every run the output directory of produce_global_csvs (resp.
\* produce_csvs_for_country) exists before the first CSV write of that
\* producer: created when missing, left as it is when present, and no CSV
\* file is written to a directory that does not exist.
C8_DirectoryBeforeWrite == [](DirsInPlace) /\ [][DirsStep]_vars

C8_Witness ==
    /\ pc.at = "appeals"
    /\ pc.i = 2
    /\ CsvPath(2, "emergencies") \in DOMAIN files
    /\ GlobalDir(tmp_output_dir) \o <<"/", "fts_", "sectors", ".csv">> \in DOMAIN files
    /\ CountryDir(tmp_output_dir, "SSD") \in dirs

\* C9: fail fast, no retries: a step that raises (a fetch, a JSON parse, a
\* date parse, a missing field) writes no file and ends the run; after it no
\* further request is issued and no further file is written, and the files
\* written before are left as they are.
C9_FailFast ==
    /\ [](error # "none" => pc.at = "failed")
    /\ [][/\ (error # "none" => (requests' = requests /\ files' = files /\ pc' = pc))
          /\ (error' # "none" => files' = files)]_vars

C9_Witness ==
    /\ pc.at = "failed"
    /\ pc.step = "appeals"
    /\ pc.i = 2
    /\ error = "ValueError(date)"
    /\ CsvPath(1, "contributions") \in DOMAIN files
    /\ CsvPath(2, "emergencies") \in DOMAIN files
    /\ CsvPath(2, "appeals") \notin DOMAIN files

\* the producer that ran last found nothing to concatenate: the parents of
\* the country (appeals, resp. emergencies) were fetched and normalized, and
\* there is none, or the table of each is empty
NothingToConcatenate(parents_url, child) ==
    /\ call.resp[parents_url].status = "ok"
    /\ LET parents == call.resp[parents_url].body.items IN
       \A k \in 1..Len(parents) :
          /\ DOMAIN parents[k] \in {DOMAIN SectorItem(1), DOMAIN AppealItem(1, "good")}
          /\ "start_date" \in DOMAIN parents[k] => parents[k].start_date \in ParseableDates
          /\ LET r == call.resp[build_json_url(<<child, ToString(parents[k].id)>>)]
             IN  r.status = "ok" /\ r.body.items = <<>>

\* C10 as stated: the projects (contributions) file is written only when some
\* per-appeal (per-emergency) table is non-empty; when the country has no
\* appeals (emergencies) or every such table is empty, it is the
\* concatenation of the empty list that fails, no file is written, and no
\* later step of the country and no later country is run.
C10_EmptyConcatenationFails ==
    /\ \A i \in 1..Len(country_codes) : \A t \in {"projects", "contributions"} :
          CsvPath(i, t) \in DOMAIN files => Len(files[CsvPath(i, t)].lines) > 0
    /\ (call.fn = "projects"
          /\ NothingToConcatenate(
                 build_json_url(<<"Appeal/country/", country_codes[call.args[1]]>>),
                 "Project/appeal/")) =>
          /\ pc = [at |-> "failed", i |-> call.args[1], step |-> "projects"]
          /\ error = "ValueError(No objects to concatenate)"
          /\ CsvPath(call.args[1], "projects") \notin DOMAIN files
    /\ (call.fn = "contributions"
          /\ NothingToConcatenate(
                 build_json_url(<<"Emergency/country/", country_codes[call.args[1]]>>),
                 "Contribution/emergency/")) =>
          /\ pc = [at |-> "failed", i |-> call.args[1], step |-> "contributions"]
          /\ error = "ValueError(No objects to concatenate)"
          /\ CsvPath(call.args[1], "contributions") \notin DOMAIN files
    /\ pc.at = "failed" =>
          /\ pc.step \in {"emergencies", "appeals", "projects"} =>
                CsvPath(pc.i, "contributions") \notin DOMAIN files
          /\ \A j \in 1..Len(country_codes) : \A t \in CountrySteps :
                j > pc.i => CsvPath(j, t) \notin DOMAIN files

====
